---- MODULE Spec2Model ----
(***************************************************************************)
(* The input-normalisation and country-synchronisation state machine of    *)
(* the InternationalPhoneInput component (src/unnamed/part_000).           *)
(*                                                                         *)
(* Texts are sequences of one-character strings.  The phone-number library *)
(* (libphonenumber-js: AsYouType, parsePhoneNumber) is an external         *)
(* collaborator; it is modelled by what it does on the numbering plans of  *)
(* the four countries of the modelled directory.                           *)
(***************************************************************************)
EXTENDS Naturals, Sequences, FiniteSets, TLC

(***************************************************************************)
(* Characters and texts                                                    *)
(***************************************************************************)
Digits == {"0", "1", "2", "3", "4", "5", "6", "7", "8", "9"}

\* The library's VALID_PUNCTUATION, restricted to the characters in play.
Punctuation == {" ", "-", "(", ")"}

RECURSIVE Concat(_)
Concat(ss) == IF ss = <<>> THEN <<>> ELSE Head(ss) \o Concat(Tail(ss))

StartsWith(s, p) == Len(s) >= Len(p) /\ SubSeq(s, 1, Len(p)) = p

Drop(s, n) == SubSeq(s, n + 1, Len(s))

Take(s, n) == SubSeq(s, 1, IF n < Len(s) THEN n ELSE Len(s))

IsDigit(ch) == ch \in Digits

\* text.replace(/[^0-9]/g, '')
StripNonDigits(text) == SelectSeq(text, IsDigit)

IsDigitOrPlus(ch) == ch \in Digits \cup {"+"}

\* text.replace(/[^0-9+]/g, '')
StripNonDigitsPlus(text) == SelectSeq(text, IsDigitOrPlus)

\* The characters the regular expression class \s matches, restricted to
\* the characters in play: the space, the tab and the line feed.
Whitespace == {" ", "\t", "\n"}

\* /^[0-9\s\-()]*$/.test(text)
StrictCharCheck(text) ==
    \A i \in 1..Len(text) : text[i] \in Digits \cup Whitespace \cup {"-", "(", ")"}

\* String.prototype.toLowerCase
LowerOf == ("A" :> "a") @@ ("B" :> "b") @@ ("C" :> "c") @@ ("D" :> "d") @@ ("E" :> "e") @@ ("F" :> "f") @@ ("G" :> "g") @@ ("H" :> "h") @@ ("I" :> "i") @@ ("J" :> "j") @@ ("K" :> "k") @@ ("L" :> "l") @@ ("M" :> "m") @@ ("N" :> "n") @@ ("O" :> "o") @@ ("P" :> "p") @@ ("Q" :> "q") @@ ("R" :> "r") @@ ("S" :> "s") @@ ("T" :> "t") @@ ("U" :> "u") @@ ("V" :> "v") @@ ("W" :> "w") @@ ("X" :> "x") @@ ("Y" :> "y") @@ ("Z" :> "z")

ToLowerCase(text) ==
    [i \in 1..Len(text) |-> IF text[i] \in DOMAIN LowerOf THEN LowerOf[text[i]] ELSE text[i]]

\* String.prototype.includes
Contains(text, sub) ==
    \E i \in 0..(Len(text) - Len(sub)) : SubSeq(text, i + 1, i + Len(sub)) = sub

(***************************************************************************)
(* Country directory (../data/countryList)                                 *)
(***************************************************************************)
CA == [iso2 |-> "CA", callingCode |-> <<"1">>, name |-> <<"C", "a", "n", "a", "d", "a">>]
DE == [iso2 |-> "DE", callingCode |-> <<"4", "9">>, name |-> <<"G", "e", "r", "m", "a", "n", "y">>]
TR == [iso2 |-> "TR", callingCode |-> <<"9", "0">>, name |-> <<"T", "u", "r", "k", "e", "y">>]
US == [iso2 |-> "US", callingCode |-> <<"1">>, name |-> <<"U", "n", "i", "t", "e", "d", " ", "S", "t", "a", "t", "e", "s">>]

countryList == <<CA, DE, TR, US>>

\* The characters of an ISO2 code.
Iso2Text(iso2) ==
    CASE iso2 = "CA" -> <<"C", "A">>
      [] iso2 = "DE" -> <<"D", "E">>
      [] iso2 = "TR" -> <<"T", "R">>
      [] iso2 = "US" -> <<"U", "S">>

Iso2Codes == {countryList[i].iso2 : i \in 1..Len(countryList)}

\* The value of array.find(pred) when nothing matches.
undefined == [iso2 |-> "undefined", callingCode |-> <<>>, name |-> <<>>]

(***************************************************************************)
(* libphonenumber-js: numbering plans                                      *)
(***************************************************************************)
\* metadata: the country calling code of a country.
LibCallingCode(iso2) ==
    CASE iso2 = "CA" -> <<"1">>
      [] iso2 = "US" -> <<"1">>
      [] iso2 = "TR" -> <<"9", "0">>
      [] iso2 = "DE" -> <<"4", "9">>

\* metadata: the national (trunk) prefix used for parsing.
NationalPrefix(iso2) == IF iso2 \in {"CA", "US"} THEN <<"1">> ELSE <<"0">>

\* metadata.getCountryCodesForCallingCode: the main country comes first.
CountriesForCallingCode(cc) ==
    CASE cc = <<"1">> -> <<"US", "CA">>
      [] cc = <<"9", "0">> -> <<"TR">>
      [] cc = <<"4", "9">> -> <<"DE">>
      [] OTHER -> <<>>

\* metadata: possible lengths of a national (significant) number.
PossibleLengths(iso2) ==
    CASE iso2 \in {"CA", "US"} -> {10}
      [] iso2 = "TR" -> {7, 10, 12, 13}
      [] iso2 = "DE" -> 4..15

\* checkNumberLength
CheckNumberLength(nsn, iso2) ==
    LET lens == PossibleLengths(iso2) IN
    CASE Len(nsn) \in lens -> "IS_POSSIBLE"
      [] \A l \in lens : Len(nsn) < l -> "TOO_SHORT"
      [] \A l \in lens : Len(nsn) > l -> "TOO_LONG"
      [] OTHER -> "INVALID_LENGTH"

\* Area codes of the North American plan known to the model: 202 is a US
\* code, 204 a Canadian one.
AreaCodes(iso2) ==
    CASE iso2 = "US" -> {<<"2", "0", "2">>}
      [] iso2 = "CA" -> {<<"2", "0", "4">>}
      [] OTHER -> {}

\* isValidNumber: the national number matches one of the country's number
\* type patterns.
\*   US, CA: <area code>[2-9]\d{6}
\*   TR    : mobile 5[0-59]\d{8}, fixed line 2[13][26]\d{7}
\*   DE    : fixed line 30[1-9]\d{3,8}
ValidNSN(iso2, nsn) ==
    CASE iso2 \in {"CA", "US"} ->
            /\ Len(nsn) = 10
            /\ Take(nsn, 3) \in AreaCodes(iso2)
            /\ nsn[4] \in Digits \ {"0", "1"}
      [] iso2 = "TR" ->
            /\ Len(nsn) = 10
            /\ \/ nsn[1] = "5" /\ nsn[2] \in {"0", "1", "2", "3", "4", "5", "9"}
               \/ nsn[1] = "2" /\ nsn[2] \in {"1", "3"} /\ nsn[3] \in {"2", "6"}
      [] iso2 = "DE" ->
            /\ Len(nsn) \in 6..11
            /\ Take(nsn, 2) = <<"3", "0">>
            /\ nsn[3] # "0"
      [] OTHER -> FALSE

\* getCountryByNationalNumber: among the countries sharing a calling code,
\* the first one whose number type patterns match; "" when none does.
RECURSIVE CountryByNationalNumber(_, _)
CountryByNationalNumber(nsn, countries) ==
    IF countries = <<>> THEN ""
    ELSE IF ValidNSN(Head(countries), nsn) THEN Head(countries)
    ELSE CountryByNationalNumber(nsn, Tail(countries))

\* getCountryByCallingCode
CountryByCallingCode(cc, nsn) ==
    LET possible == CountriesForCallingCode(cc) IN
    IF Len(possible) = 1 THEN possible[1]
    ELSE CountryByNationalNumber(nsn, possible)

(***************************************************************************)
(* libphonenumber-js: the PhoneNumber class                                *)
(***************************************************************************)
\* A PhoneNumber: country is "" when the calling code is shared and no
\* country's patterns match the national number.
PhoneNumber(cc, nsn, country) ==
    [ok |-> TRUE, callingCode |-> cc, nationalNumber |-> nsn, country |-> country]

\* What parsePhoneNumber and getNumber yield when there is no number.
NoNumber == [ok |-> FALSE, callingCode |-> <<>>, nationalNumber |-> <<>>, country |-> ""]

\* The numbering plan of a number: its country's, or that of the main
\* country of its calling code.
PlanOf(number) ==
    IF number.country # "" THEN number.country
    ELSE CountriesForCallingCode(number.callingCode)[1]

\* PhoneNumber.isValid()
IsValid(number) ==
    number.ok /\ ValidNSN(PlanOf(number), number.nationalNumber)

\* PhoneNumber.format('E.164')
FormatE164(number) == <<"+">> \o number.callingCode \o number.nationalNumber

\* Groups of a national number template, cut where the digits end.
Group(nsn, from, to) ==
    IF Len(nsn) < from THEN <<>>
    ELSE SubSeq(nsn, from, IF Len(nsn) < to THEN Len(nsn) ELSE to)

Sep(nsn, from, sep) == IF Len(nsn) >= from THEN sep ELSE <<>>

\* The North American template ($1) $2-$3 for leading digit [2-9].
FormatNANP(nsn) ==
    <<"(">> \o Group(nsn, 1, 3) \o <<")">>
    \o Sep(nsn, 4, <<" ">>) \o Group(nsn, 4, 6)
    \o Sep(nsn, 7, <<"-">>) \o Group(nsn, 7, 10)

\* The Turkish template $1 $2 $3 $4 for mobile numbers.
FormatTR(nsn) ==
    Group(nsn, 1, 3)
    \o Sep(nsn, 4, <<" ">>) \o Group(nsn, 4, 6)
    \o Sep(nsn, 7, <<" ">>) \o Group(nsn, 7, 8)
    \o Sep(nsn, 9, <<" ">>) \o Group(nsn, 9, 10)

\* The German template $1 $2 for Berlin numbers.
FormatDE(nsn) == Group(nsn, 1, 2) \o Sep(nsn, 3, <<" ">>) \o Group(nsn, 3, Len(nsn))

\* Whether a number format of the plan is chosen for these leading digits
\* and this length.
HasFormat(iso2, nsn) ==
    CASE iso2 \in {"CA", "US"} ->
            Len(nsn) \in 3..10 /\ nsn[1] \in Digits \ {"0", "1"}
      [] iso2 = "TR" ->
            /\ Len(nsn) \in 3..10
            /\ nsn[1] = "5" /\ nsn[2] \in {"0", "1", "2", "3", "4", "5", "9"}
      [] iso2 = "DE" ->
            Len(nsn) \in 3..11 /\ Take(nsn, 2) = <<"3", "0">>
      [] OTHER -> FALSE

ApplyFormat(iso2, nsn) ==
    CASE iso2 \in {"CA", "US"} -> FormatNANP(nsn)
      [] iso2 = "TR" -> FormatTR(nsn)
      [] iso2 = "DE" -> FormatDE(nsn)

\* Whether a number format's pattern matches the whole national number
\* (the templates above are complete at 10 digits; the German one from 5).
FormatMatchesEntirely(iso2, nsn) ==
    /\ HasFormat(iso2, nsn)
    /\ IF iso2 = "DE" THEN Len(nsn) >= 5 ELSE Len(nsn) = 10

\* The national format of a national number under a plan: the chosen
\* format with the national prefix formatting rule (0$1 in TR and DE, none
\* in the North American plan); the bare national number when no format
\* matches.
FormatNationalOf(plan, nsn) ==
    IF FormatMatchesEntirely(plan, nsn)
    THEN (IF plan \in {"TR", "DE"} THEN <<"0">> ELSE <<>>) \o ApplyFormat(plan, nsn)
    ELSE nsn

\* PhoneNumber.format('NATIONAL')
FormatNational(number) == FormatNationalOf(PlanOf(number), number.nationalNumber)

(***************************************************************************)
(* libphonenumber-js: parsePhoneNumber                                     *)
(***************************************************************************)
\* extractCountryCallingCode of the digits that follow a "+": the shortest
\* leading digit string that is a calling code; <<>> when there is none.
ExtractCallingCode(digits) ==
    IF \E n \in 1..3 : n <= Len(digits) /\ CountriesForCallingCode(Take(digits, n)) # <<>>
    THEN Take(digits, CHOOSE n \in 1..3 :
                 /\ n <= Len(digits)
                 /\ CountriesForCallingCode(Take(digits, n)) # <<>>
                 /\ \A m \in 1..(n - 1) : CountriesForCallingCode(Take(digits, m)) = <<>>)
    ELSE <<>>

\* extractNationalNumber: the national prefix is stripped unless what
\* remains is too short to be a number of the plan.
ExtractNationalNumber(number, plan) ==
    LET np == NationalPrefix(plan)
        stripped == Drop(number, Len(np))
    IN IF StartsWith(number, np)
          /\ CheckNumberLength(stripped, plan) \notin {"TOO_SHORT", "INVALID_LENGTH"}
       THEN stripped
       ELSE number

\* The part of a text a number is read from: from the first "+" or digit
\* to the first character that is no digit, punctuation or "+".
RECURSIVE SkipToNumber(_)
SkipToNumber(text) ==
    IF text = <<>> THEN <<>>
    ELSE IF Head(text) \in Digits \cup {"+"} THEN text
    ELSE SkipToNumber(Tail(text))

RECURSIVE TakeNumberPart(_)
TakeNumberPart(text) ==
    IF text = <<>> THEN <<>>
    ELSE IF Head(text) \in Digits \cup Punctuation
         THEN <<Head(text)>> \o TakeNumberPart(Tail(text))
         ELSE <<>>

\* The number part of a text that starts at its first "+" or digit
NumberPartFrom(from) ==
    IF from = <<>> THEN <<>>
    ELSE IF Head(from) = "+" THEN <<"+">> \o TakeNumberPart(Tail(from))
    ELSE TakeNumberPart(from)

\* extractFormattedPhoneNumber
ExtractFormattedPhoneNumber(text) == NumberPartFrom(SkipToNumber(text))

\* Whether a number part is in international form
IsInternational(part) == part # <<>> /\ Head(part) = "+"

\* The country of a number: the one its digits determine among the
\* countries of its calling code, else the fallback.
ResolveCountry(exact, fallback) == IF exact # "" THEN exact ELSE fallback

\* The parse result for a calling code and a national number: none for a
\* text of fewer than 2 digits or a national number of fewer than 2 or
\* more than 17 digits.
ParseNumber(len, cc, nsn, fallback) ==
    IF len < 2 \/ Len(nsn) < 2 \/ Len(nsn) > 17
    THEN NoNumber
    ELSE PhoneNumber(cc, nsn, ResolveCountry(CountryByCallingCode(cc, nsn), fallback))

\* The parse of the digits that follow a calling code
ParseWithCallingCode(digits, cc) ==
    IF cc = <<>> THEN NoNumber
    ELSE ParseNumber(Len(digits), cc,
                     ExtractNationalNumber(Drop(digits, Len(cc)),
                                           CountriesForCallingCode(cc)[1]),
                     "")

\* The parse of a number in international form
ParseInternational(digits) == ParseWithCallingCode(digits, ExtractCallingCode(digits))

\* The parse of a number in national form
ParseNational(digits, defaultCountry) ==
    IF defaultCountry = "" THEN NoNumber
    ELSE ParseNumber(Len(digits), LibCallingCode(defaultCountry),
                     ExtractNationalNumber(digits, defaultCountry), defaultCountry)

ParsePart(part, defaultCountry) ==
    IF IsInternational(part)
    THEN ParseInternational(StripNonDigits(part))
    ELSE ParseNational(StripNonDigits(part), defaultCountry)

\* parsePhoneNumber(text, defaultCountry); defaultCountry "" for the
\* unscoped call.  The result is NoNumber where the library throws or
\* yields undefined: no number in the text, no calling code and no default
\* country, or a national number of fewer than 2 or more than 17 digits.
ParsePhoneNumber(text, defaultCountry) ==
    ParsePart(ExtractFormattedPhoneNumber(text), defaultCountry)

(***************************************************************************)
(* libphonenumber-js: AsYouType                                            *)
(***************************************************************************)
\* The state of an AsYouType instance after a national input: the national
\* prefix is stripped whenever the digits start with one.
AsYouTypeNational(iso2, digits) ==
    [international |-> FALSE, digits |-> digits, callingCode |-> LibCallingCode(iso2),
     prefix |-> IF StartsWith(digits, NationalPrefix(iso2))
                THEN NationalPrefix(iso2) ELSE <<>>,
     nsn |-> IF StartsWith(digits, NationalPrefix(iso2))
             THEN Drop(digits, Len(NationalPrefix(iso2))) ELSE digits]

\* An international number that no format takes has a national prefix
\* re-extracted from it.
ReExtractPrefix(rest, plan) ==
    IF ~HasFormat(plan, rest) /\ StartsWith(rest, NationalPrefix(plan))
    THEN Drop(rest, Len(NationalPrefix(plan)))
    ELSE rest

\* The state after an international input with this calling code
AsYouTypeCalling(digits, cc) ==
    [international |-> TRUE, digits |-> digits, callingCode |-> cc, prefix |-> <<>>,
     nsn |-> IF cc = <<>> THEN digits
             ELSE ReExtractPrefix(Drop(digits, Len(cc)), CountriesForCallingCode(cc)[1])]

AsYouTypeInternational(digits) == AsYouTypeCalling(digits, ExtractCallingCode(digits))

AsYouTypePart(iso2, part) ==
    IF IsInternational(part)
    THEN AsYouTypeInternational(StripNonDigits(part))
    ELSE AsYouTypeNational(iso2, StripNonDigits(part))

\* The state of an AsYouType(defaultCountry) instance after input(text):
\* whether the number is international, its digits, its calling code, the
\* national prefix stripped from it and its national (significant) number.
AsYouTypeState(iso2, text) == AsYouTypePart(iso2, ExtractFormattedPhoneNumber(text))

\* The formatted output of a state.  A national input is shown through the
\* plan's template when one is chosen for its leading digits, after its
\* national prefix if it has one, and as its bare digits otherwise; an
\* international one as "+", calling code and digits.
FormatState(iso2, st) ==
    IF st.international
    THEN IF st.digits = <<>> THEN <<"+">>
         ELSE IF st.callingCode = <<>> THEN <<"+">> \o st.digits
         ELSE <<"+">> \o st.callingCode
              \o (IF st.nsn = <<>> THEN <<>> ELSE <<" ">> \o st.nsn)
    ELSE IF st.digits = <<>> THEN <<>>
    ELSE IF HasFormat(iso2, st.nsn)
         THEN st.prefix
              \o (IF st.prefix # <<>> /\ iso2 \in {"CA", "US"} THEN <<" ">> ELSE <<>>)
              \o ApplyFormat(iso2, st.nsn)
         ELSE st.digits

\* AsYouType(iso2).input(text): the formatted output
AsYouTypeInput(iso2, text) == FormatState(iso2, AsYouTypeState(iso2, text))

\* The number of a state: NoNumber while there is no national number (or
\* no calling code); the country of a number whose calling code is shared
\* is the one its digits determine, else the default country.
NumberOfState(iso2, st) ==
    IF st.nsn = <<>> \/ st.callingCode = <<>>
    THEN NoNumber
    ELSE PhoneNumber(st.callingCode, st.nsn,
                     ResolveCountry(CountryByCallingCode(st.callingCode, st.nsn),
                                    IF st.international THEN "" ELSE iso2))

\* AsYouType(iso2).input(text) followed by getNumber()
AsYouTypeGetNumber(iso2, text) == NumberOfState(iso2, AsYouTypeState(iso2, text))

(***************************************************************************)
(* The component: derived values                                           *)
(***************************************************************************)
\* Array.prototype.includes
Includes(arr, x) == \E i \in 1..Len(arr) : arr[i] = x

\* Array.prototype.indexOf (1-based; 0 when absent)
IndexOf(arr, x) ==
    IF Includes(arr, x) THEN CHOOSE i \in 1..Len(arr) :
                                /\ arr[i] = x
                                /\ \A j \in 1..(i - 1) : arr[j] # x
    ELSE 0

\* Array.prototype.find over country records, by ISO2 code
FindByIso2(list, iso2) ==
    IF \E i \in 1..Len(list) : list[i].iso2 = iso2
    THEN list[CHOOSE i \in 1..Len(list) :
                  /\ list[i].iso2 = iso2
                  /\ \A j \in 1..(i - 1) : list[j].iso2 # iso2]
    ELSE undefined

\* The preferred entries left in the order the filter produced them
KeepDirectoryOrder(list, preferredCountries) == list

\* Array.prototype.sort by the index in preferredCountries (a stable
\* insertion of each entry after the entries whose index is not larger).
RECURSIVE SortByPreference(_, _)
SortByPreference(list, preferredCountries) ==
    IF list = <<>> THEN <<>>
    ELSE LET rest == SortByPreference(Tail(list), preferredCountries)
             k == IndexOf(preferredCountries, Head(list).iso2)
             before == SelectSeq(rest, LAMBDA c : IndexOf(preferredCountries, c.iso2) < k)
             after == SelectSeq(rest, LAMBDA c : IndexOf(preferredCountries, c.iso2) >= k)
         IN before \o <<Head(list)>> \o after

\* The candidate list with the preferred entries put on top of the whole
\* filtered list
finalCountryListPreferredOnTop(allowedCountries, excludedCountries, preferredCountries) ==
    LET afterAllowed ==
            IF Len(allowedCountries) > 0
            THEN SelectSeq(countryList, LAMBDA c : Includes(allowedCountries, c.iso2))
            ELSE countryList
        afterExcluded ==
            IF Len(excludedCountries) > 0
            THEN SelectSeq(afterAllowed, LAMBDA c : ~Includes(excludedCountries, c.iso2))
            ELSE afterAllowed
        preferred == SelectSeq(afterExcluded, LAMBDA c : Includes(preferredCountries, c.iso2))
    IN IF Len(preferredCountries) > 0
       THEN SortByPreference(preferred, preferredCountries) \o afterExcluded
       ELSE afterExcluded

\* The candidate list computed without the excluded filter
finalCountryListNoExclusion(allowedCountries, excludedCountries, preferredCountries) ==
    LET afterAllowed ==
            IF Len(allowedCountries) > 0
            THEN SelectSeq(countryList, LAMBDA c : Includes(allowedCountries, c.iso2))
            ELSE countryList
        preferred == SelectSeq(afterAllowed, LAMBDA c : Includes(preferredCountries, c.iso2))
        others == SelectSeq(afterAllowed, LAMBDA c : ~Includes(preferredCountries, c.iso2))
    IN IF Len(preferredCountries) > 0
       THEN SortByPreference(preferred, preferredCountries) \o others
       ELSE afterAllowed

finalCountryListOf(allowedCountries, excludedCountries, preferredCountries) ==
    LET afterAllowed ==
            IF Len(allowedCountries) > 0
            THEN SelectSeq(countryList, LAMBDA c : Includes(allowedCountries, c.iso2))
            ELSE countryList
        afterExcluded ==
            IF Len(excludedCountries) > 0
            THEN SelectSeq(afterAllowed, LAMBDA c : ~Includes(excludedCountries, c.iso2))
            ELSE afterAllowed
        preferred == SelectSeq(afterExcluded, LAMBDA c : Includes(preferredCountries, c.iso2))
        others == SelectSeq(afterExcluded, LAMBDA c : ~Includes(preferredCountries, c.iso2))
    IN IF Len(preferredCountries) > 0
       THEN SortByPreference(preferred, preferredCountries) \o others
       ELSE afterExcluded

\* An initialiser that falls back to the directory at once
InitialCountryDirectoryFallback(list, defaultCountry) ==
    IF FindByIso2(list, defaultCountry) # undefined THEN FindByIso2(list, defaultCountry)
    ELSE countryList[1]

\* useState initialiser of selectedCountry
InitialCountry(list, defaultCountry) ==
    IF FindByIso2(list, defaultCountry) # undefined THEN FindByIso2(list, defaultCountry)
    ELSE IF Len(list) > 0 THEN list[1]
    ELSE countryList[1]

\* An emission that reports the country of the number when it is valid
EmissionForNumberCountry(number, nationalDigits, country) ==
    IF number.ok /\ IsValid(number)
    THEN [value |-> FormatE164(number), iso2 |-> number.country]
    ELSE [value |-> <<"+">> \o country.callingCode \o nationalDigits, iso2 |-> country.iso2]

\* The (value, iso2) onChange is called with for a number: its E.164 form
\* when it is valid, else "+", calling code and digits.
EmissionFor(number, nationalDigits, country) ==
    IF number.ok /\ IsValid(number)
    THEN [value |-> FormatE164(number), iso2 |-> country.iso2]
    ELSE [value |-> <<"+">> \o country.callingCode \o nationalDigits, iso2 |-> country.iso2]

\* The (value, iso2) a cleaned input yields under a country
EmissionOf(cleanInput, nationalDigits, country) ==
    EmissionFor(AsYouTypeGetNumber(country.iso2, cleanInput), nationalDigits, country)

\* emitChange without the E.164 branch: always "+", calling code and digits
emitChangeFallbackOnly(text, country) ==
    [value |-> (<<"+">> \o country.callingCode) \o StripNonDigits(text),
     iso2 |-> country.iso2]

\* emitChange: the arguments of its onChange call
emitChange(text, country) ==
    EmissionOf(StripNonDigitsPlus(text), StripNonDigits(StripNonDigitsPlus(text)), country)

\* The callback handleSelectCountry hands to setTimeout: the arguments of
\* its onChange call
deferredEmission(rawDigits, country) == EmissionOf(rawDigits, rawDigits, country)

\* The parse the effect settles on: the one scoped to the selected country
\* when it is valid, else the generic one.  parsePhoneNumber fails by
\* throwing or by returning undefined, depending on the library build
\* (throws): a throwing generic parse leaves the scoped result in place, an
\* undefined one replaces it.
ChooseParsed(scoped, generic, throws) ==
    IF ~scoped.ok \/ ~IsValid(scoped)
    THEN (IF generic.ok \/ ~throws THEN generic ELSE scoped)
    ELSE scoped

\* The country switch without the test that the entry was found
SwitchCountryUnchecked(iso2, selected, newCountry) ==
    IF iso2 # selected.iso2 THEN newCountry ELSE selected

\* The country the effect selects for a parsed country code
SwitchCountry(iso2, selected, newCountry) ==
    IF iso2 # selected.iso2 /\ newCountry # undefined THEN newCountry ELSE selected

\* The display left as the canonical value
NationalOrRawValue(ok, formatted, value) == value

\* formatted?.formatNational() || value
NationalOrRaw(ok, formatted, value) ==
    IF ok /\ formatted # <<>> THEN formatted ELSE value

\* AsYouType(country).input(value) followed by getNumber()?.formatNational()
ReformatNational(number, value) ==
    NationalOrRaw(number.ok, FormatNational(number), value)

\* The effect clearing the field when no parse finds a country
ApplyParsedClearing(parsed, value, selected, list) ==
    IF parsed.ok /\ parsed.country # ""
    THEN [selectedCountry |->
             SwitchCountry(parsed.country, selected, FindByIso2(list, parsed.country)),
          internalNational |->
             ReformatNational(AsYouTypeGetNumber(parsed.country, value), value)]
    ELSE [selectedCountry |-> selected, internalNational |-> <<>>]

\* What the effect does with the parse it settled on
ApplyParsed(parsed, value, selected, list) ==
    IF parsed.ok /\ parsed.country # ""
    THEN [selectedCountry |->
             SwitchCountry(parsed.country, selected, FindByIso2(list, parsed.country)),
          internalNational |->
             ReformatNational(AsYouTypeGetNumber(parsed.country, value), value)]
    ELSE [selectedCountry |-> selected, internalNational |-> value]

\* The body of the effect returning on an empty value without clearing the
\* field
ReconcileKeepingText(value, selected, national, list, throws) ==
    IF value = <<>> THEN [selectedCountry |-> selected, internalNational |-> national]
    ELSE ApplyParsed(ChooseParsed(ParsePhoneNumber(value, selected.iso2),
                                  ParsePhoneNumber(value, ""), throws),
                     value, selected, list)

\* The body of the "Sync prop value" effect below its guard test: the
\* selected country and the national text it leaves.
Reconcile(value, selected, national, list, throws) ==
    IF value = <<>> THEN [selectedCountry |-> selected, internalNational |-> <<>>]
    ELSE ApplyParsed(ChooseParsed(ParsePhoneNumber(value, selected.iso2),
                                  ParsePhoneNumber(value, ""), throws),
                     value, selected, list)

\* The "Sync prop value" effect: a set guard is consumed and nothing else
\* happens; otherwise the value is reconciled.
SyncPropValue(guard, value, selected, national, list, throws) ==
    IF guard
    THEN [isInternalChange |-> FALSE, selectedCountry |-> selected,
          internalNational |-> national]
    ELSE [isInternalChange |-> FALSE]
         @@ Reconcile(value, selected, national, list, throws)

\* A search that compares the query as typed
filteredCountriesCaseSensitive(searchQuery, list) ==
    IF searchQuery = <<>> THEN list
    ELSE SelectSeq(list, LAMBDA c :
             \/ Contains(ToLowerCase(c.name), searchQuery)
             \/ Contains(c.callingCode, searchQuery)
             \/ Contains(ToLowerCase(Iso2Text(c.iso2)), searchQuery))

\* filteredCountries: the entries the picker shows for a search query
filteredCountriesOf(searchQuery, list) ==
    IF searchQuery = <<>> THEN list
    ELSE LET lower == ToLowerCase(searchQuery) IN
         SelectSeq(list, LAMBDA c :
             \/ Contains(ToLowerCase(c.name), lower)
             \/ Contains(c.callingCode, lower)
             \/ Contains(ToLowerCase(Iso2Text(c.iso2)), lower))

(***************************************************************************)
(* Inputs and bounds                                                       *)
(***************************************************************************)
\* Texts the field's onChangeText delivers (the whole new text).
TextEmpty == <<>>
TextUS == <<"(", "2", "0", "2", ")", " ", "5", "5", "5", "-", "0", "1", "2", "3">>
TextTRNational == <<"0", "5", "3", "2", " ", "1", "2", "3", " ", "4", "5", " ", "6", "7">>
TextLetter == <<"2", "0", "a">>
TextPlus == <<"+", "1", "2", "0", "2">>
TextSymbol == <<"2", "0", "2", "#">>
TextTab == <<"2", "0", "\t", "2">>
TextUSEdited == <<"(", "2", "0", "2", ")", " ", "5", "5", "5", "0", "1", "2", "3">>
TextShort == <<"1", "2", "3">>
TextCA == <<"(", "2", "0", "4", ")", " ", "2", "3", "4", "-", "5", "6", "7", "8">>

KeyTexts ==
    {TextEmpty, TextUS, TextTRNational, TextLetter, TextPlus, TextSymbol, TextTab,
     TextUSEdited, TextShort, TextCA}

\* Values the host passes as the value prop on its own.
ValueUS == <<"+", "1", "2", "0", "2", "5", "5", "5", "0", "1", "2", "3">>
ValueTR == <<"+", "9", "0", "5", "3", "2", "1", "2", "3", "4", "5", "6", "7">>
ValueCA == <<"+", "1", "2", "0", "4", "2", "3", "4", "5", "6", "7", "8">>

HostValues == {<<>>, ValueUS, ValueTR, ValueCA}

\* Values no parse finds a country for: a calling code shared by several
\* countries before digits that match none of them, and digits that start
\* with no calling code.
ValueUnresolved == <<"+", "1", "2", "0", "2">>
ValueNoCallingCode == <<"+", "9", "9", "9", "1", "2", "3">>

TypingHostValues == HostValues \cup {ValueUnresolved, ValueNoCallingCode}

\* The allowedCountries / excludedCountries / preferredCountries the host
\* passes.
ListProps ==
    { [allowed |-> <<"TR", "US">>, excluded |-> <<>>, preferred |-> <<>>] }

\* The list props the host changes to after mount.
ChangedListProps ==
    ListProps \cup
    { [allowed |-> <<"US">>, excluded |-> <<>>, preferred |-> <<>>],
      [allowed |-> <<>>, excluded |-> <<>>, preferred |-> <<"US">>],
      [allowed |-> <<"US">>, excluded |-> <<"US">>, preferred |-> <<>>] }

\* The lists of codes the host passes where the list props vary: every
\* list of at most two of these codes, repeated codes included, and for
\* preferredCountries two lists of three.
PropCodes == {"CA", "DE", "US"}

CodeLists ==
    {<<>>} \cup {<<a>> : a \in PropCodes} \cup {<<a, b>> : a \in PropCodes, b \in PropCodes}

PreferredLists == CodeLists \cup {<<"US", "DE", "CA">>, <<"DE", "US", "DE">>}

AllListProps == [allowed : CodeLists, excluded : CodeLists, preferred : PreferredLists]

DefaultCountries == {"TR", "US"}

PickerTypes == {"dropdown", "modal"}

SearchQueries == {<<>>, <<"u">>, <<"9", "0">>}

ListSearchQueries == {<<>>, <<"U", "s">>, <<"1">>, <<"A", "n">>}

\* Country selections a run makes at most.
MaxSelections == 1

(***************************************************************************)
(* The component: state                                                    *)
(***************************************************************************)
VARIABLES
    value,               \* prop: the canonical value the host passes
    allowedCountries,    \* prop
    excludedCountries,   \* prop
    preferredCountries,  \* prop
    disabled,            \* prop
    pickerType,          \* prop: "dropdown" or "modal"
    isOpen,              \* useState
    internalNational,    \* useState: the text the field shows
    selectedCountry,     \* useState
    searchQuery,         \* useState
    isInternalChange,    \* useRef: the reentrancy guard
    timers,              \* setTimeout callbacks not yet run, oldest first
    selections,          \* country selections made so far
    mounted,             \* whether the component is mounted
    onChangeCalls,       \* the onChange calls of the last step, each with
                         \* the guard as it was at the call
    lastEvent            \* the kind of the last step

vars == <<value, allowedCountries, excludedCountries, preferredCountries, disabled,
          pickerType, isOpen, internalNational, selectedCountry, searchQuery,
          isInternalChange, timers, selections, mounted, onChangeCalls, lastEvent>>

props == <<allowedCountries, excludedCountries, preferredCountries, disabled, pickerType>>

finalCountryList ==
    finalCountryListOf(allowedCountries, excludedCountries, preferredCountries)

filteredCountries == filteredCountriesOf(searchQuery, finalCountryList)

\* An onChange call and the guard at the time of the call.
Call(emission, guard) ==
    [value |-> emission.value, iso2 |-> emission.iso2, guard |-> guard]

\* The render that follows a step: the "Sync prop value" effect runs when
\* one of its dependencies (value, finalCountryList) has changed.
AfterRender(guard, newValue, listChanged, selected, national, list, throws) ==
    IF newValue # value \/ listChanged
    THEN SyncPropValue(guard, newValue, selected, national, list, throws)
    ELSE [isInternalChange |-> guard, selectedCountry |-> selected,
          internalNational |-> national]

(***************************************************************************)
(* Mount                                                                   *)
(***************************************************************************)
\* The kind of the first step: the mount with this defaultCountry prop.
MountEvent(dc) == IF dc = "TR" THEN "mount TR" ELSE "mount US"

\* The state after the first render and its effects
Mounted(v, lp, dc, pt, r) ==
    /\ value = v
    /\ allowedCountries = lp.allowed
    /\ excludedCountries = lp.excluded
    /\ preferredCountries = lp.preferred
    /\ disabled = FALSE
    /\ pickerType = pt
    /\ isOpen = FALSE
    /\ internalNational = r.internalNational
    /\ selectedCountry = r.selectedCountry
    /\ searchQuery = <<>>
    /\ isInternalChange = r.isInternalChange
    /\ timers = <<>>
    /\ selections = 0
    /\ mounted = TRUE
    /\ onChangeCalls = <<>>
    /\ lastEvent = MountEvent(dc)

Mount(pickerTypes) ==
    \E lp \in ListProps, dc \in DefaultCountries, v \in HostValues,
       pt \in pickerTypes, throws \in BOOLEAN :
        Mounted(v, lp, dc, pt,
                SyncPropValue(FALSE, v,
                    InitialCountry(finalCountryListOf(lp.allowed, lp.excluded, lp.preferred), dc),
                    <<>>,
                    finalCountryListOf(lp.allowed, lp.excluded, lp.preferred),
                    throws))

\* The component mounted with no value under any of the list props.
InitLists ==
    \E lp \in AllListProps, dc \in DefaultCountries :
        Mounted(<<>>, lp, dc, "dropdown",
                SyncPropValue(FALSE, <<>>,
                    InitialCountry(finalCountryListOf(lp.allowed, lp.excluded, lp.preferred), dc),
                    <<>>,
                    finalCountryListOf(lp.allowed, lp.excluded, lp.preferred),
                    TRUE))

\* The component mounted with the default picker type.
Init == Mount({"dropdown"})

\* The component mounted with either picker type.
InitPicker == Mount(PickerTypes)

(***************************************************************************)
(* Keystrokes                                                              *)
(***************************************************************************)
\* handleTextChange(text) for a text the strict character check rejects.
RejectedKeystroke(text) ==
    /\ ~StrictCharCheck(text)
    /\ lastEvent' = "other"
    /\ onChangeCalls' = <<>>
    /\ UNCHANGED <<value, internalNational, selectedCountry, isInternalChange>>

\* The state a render and its effects leave
Rendered(newValue, r) ==
    /\ value' = newValue
    /\ internalNational' = r.internalNational
    /\ selectedCountry' = r.selectedCountry
    /\ isInternalChange' = r.isInternalChange

\* The value prop after the host's answer to an onChange call (echo: it
\* passes the emitted value back as the value prop).
HostAnswer(emission, echo) == IF echo THEN emission.value ELSE value

\* setInternalNational(formatted), emitChange's onChange call, the host's
\* answer and the render that follows.
KeystrokeStep(emission, formatted, echo) ==
    /\ lastEvent' = "keystroke"
    /\ onChangeCalls' = <<Call(emission, TRUE)>>
    /\ Rendered(HostAnswer(emission, echo),
                AfterRender(TRUE, HostAnswer(emission, echo), FALSE, selectedCountry,
                            formatted, finalCountryList, TRUE))

\* handleTextChange(text) for a text the check accepts
AcceptedKeystroke(text, echo) ==
    /\ StrictCharCheck(text)
    /\ KeystrokeStep(emitChange(text, selectedCountry),
                     AsYouTypeInput(selectedCountry.iso2, text), echo)

handleTextChange(text) ==
    /\ mounted /\ ~disabled
    /\ \/ RejectedKeystroke(text)
       \/ \E echo \in BOOLEAN : AcceptedKeystroke(text, echo)
    /\ UNCHANGED <<props, isOpen, searchQuery, timers, selections, mounted>>

(***************************************************************************)
(* Country selection                                                       *)
(***************************************************************************)
\* A selection that discards the text of the field
handleSelectCountryReset(country) ==
    /\ selections < MaxSelections
    /\ selections' = selections + 1
    /\ selectedCountry' = country
    /\ isOpen' = FALSE
    /\ searchQuery' = <<>>
    /\ internalNational' = <<>>
    /\ timers' = Append(timers, [country |-> country,
                                 rawDigits |-> StripNonDigits(internalNational)])
    /\ onChangeCalls' = <<>>
    /\ UNCHANGED <<value, props, isInternalChange, mounted>>

\* A selection that leaves the search query in place
handleSelectCountryKeepQuery(country) ==
    /\ selections < MaxSelections
    /\ selections' = selections + 1
    /\ selectedCountry' = country
    /\ isOpen' = FALSE
    /\ internalNational' = AsYouTypeInput(country.iso2, StripNonDigits(internalNational))
    /\ timers' = Append(timers, [country |-> country,
                                 rawDigits |-> StripNonDigits(internalNational)])
    /\ onChangeCalls' = <<>>
    /\ UNCHANGED <<value, props, searchQuery, isInternalChange, mounted>>

\* A selection that calls onChange inside the handler
handleSelectCountrySync(country) ==
    /\ selections < MaxSelections
    /\ selections' = selections + 1
    /\ selectedCountry' = country
    /\ isOpen' = FALSE
    /\ searchQuery' = <<>>
    /\ internalNational' = AsYouTypeInput(country.iso2, StripNonDigits(internalNational))
    /\ onChangeCalls' =
           <<Call(deferredEmission(StripNonDigits(internalNational), country),
                  isInternalChange)>>
    /\ UNCHANGED <<value, props, isInternalChange, timers, mounted>>

handleSelectCountry(country) ==
    LET rawDigits == StripNonDigits(internalNational)
        formatted == AsYouTypeInput(country.iso2, rawDigits)
    IN /\ selections < MaxSelections
       /\ selections' = selections + 1
       /\ selectedCountry' = country
       /\ isOpen' = FALSE
       /\ searchQuery' = <<>>
       /\ internalNational' = formatted
       /\ timers' = Append(timers, [country |-> country, rawDigits |-> rawDigits])
       /\ onChangeCalls' = <<>>
       /\ UNCHANGED <<value, props, isInternalChange, mounted>>

\* renderItem's onPress: a tap on an entry the open picker shows.
PressItem(country) ==
    /\ mounted /\ isOpen
    /\ Includes(filteredCountries, country)
    /\ lastEvent' = "select"
    /\ handleSelectCountry(country)

\* setCountry looking the code up in the whole directory
setCountryUnchecked(iso2) ==
    /\ mounted
    /\ LET country == FindByIso2(countryList, iso2) IN
       IF country # undefined
       THEN /\ lastEvent' = "select"
            /\ handleSelectCountry(country)
       ELSE /\ lastEvent' = "ignored"
            /\ onChangeCalls' = <<>>
            /\ UNCHANGED <<value, props, isOpen, internalNational, selectedCountry,
                           searchQuery, isInternalChange, timers, selections, mounted>>

\* The ref's setCountry(iso2): a selection when the code is in the list.
setCountry(iso2) ==
    /\ mounted
    /\ LET country == FindByIso2(finalCountryList, iso2) IN
       IF country # undefined
       THEN /\ lastEvent' = "select"
            /\ handleSelectCountry(country)
       ELSE /\ lastEvent' = "ignored"
            /\ onChangeCalls' = <<>>
            /\ UNCHANGED <<value, props, isOpen, internalNational, selectedCountry,
                           searchQuery, isInternalChange, timers, selections, mounted>>

\* The onChange call of a timer callback, the host's answer and, while the
\* component is mounted, the render that follows.
TimerStep(emission, echo, throws) ==
    /\ lastEvent' = "timer"
    /\ onChangeCalls' = <<Call(emission, isInternalChange)>>
    /\ Rendered(HostAnswer(emission, echo),
                IF mounted
                THEN AfterRender(isInternalChange, HostAnswer(emission, echo), FALSE,
                                 selectedCountry, internalNational, finalCountryList,
                                 throws)
                ELSE [isInternalChange |-> isInternalChange,
                      selectedCountry |-> selectedCountry,
                      internalNational |-> internalNational])

\* The timer callback of the oldest pending selection
FireTimer(echo, throws) ==
    /\ timers # <<>>
    /\ TimerStep(deferredEmission(Head(timers).rawDigits, Head(timers).country),
                 echo, throws)
    /\ timers' = Tail(timers)
    /\ UNCHANGED <<props, isOpen, searchQuery, selections, mounted>>

(***************************************************************************)
(* The host                                                                *)
(***************************************************************************)
\* A reconciliation that reports the value it has taken over
HostSetValueEmitting(v, throws) ==
    /\ mounted
    /\ v # value
    /\ Rendered(v, AfterRender(isInternalChange, v, FALSE, selectedCountry,
                               internalNational, finalCountryList, throws))
    /\ lastEvent' = "host"
    /\ onChangeCalls' = <<[value |-> v, iso2 |-> selectedCountry.iso2, guard |-> FALSE]>>
    /\ UNCHANGED <<props, isOpen, searchQuery, timers, selections, mounted>>

\* The host passes another value prop; the render runs the effect.
HostSetValue(v, throws) ==
    /\ mounted
    /\ v # value
    /\ Rendered(v, AfterRender(isInternalChange, v, FALSE, selectedCountry,
                               internalNational, finalCountryList, throws))
    /\ lastEvent' = "host"
    /\ onChangeCalls' = <<>>
    /\ UNCHANGED <<props, isOpen, searchQuery, timers, selections, mounted>>

\* The host removes the component.  The only cleanup is the keyboard
\* listener's; no pending setTimeout callback is cancelled.
Unmount ==
    /\ mounted
    /\ mounted' = FALSE
    /\ lastEvent' = "unmount"
    /\ onChangeCalls' = <<>>
    /\ UNCHANGED <<value, props, isOpen, internalNational, selectedCountry, searchQuery,
                   isInternalChange, timers, selections>>

\* The host passes other list props: finalCountryList is recomputed and the
\* render runs the effect, which depends on it.
HostSetLists(lp, throws) ==
    /\ mounted
    /\ lp # [allowed |-> allowedCountries, excluded |-> excludedCountries,
             preferred |-> preferredCountries]
    /\ allowedCountries' = lp.allowed
    /\ excludedCountries' = lp.excluded
    /\ preferredCountries' = lp.preferred
    /\ Rendered(value, AfterRender(isInternalChange, value, TRUE, selectedCountry,
                                   internalNational,
                                   finalCountryListOf(lp.allowed, lp.excluded, lp.preferred),
                                   throws))
    /\ lastEvent' = "lists"
    /\ onChangeCalls' = <<>>
    /\ UNCHANGED <<disabled, pickerType, isOpen, searchQuery, timers, selections, mounted>>

\* The host passes another disabled prop; no effect depends on it.
HostSetDisabled(d) ==
    /\ mounted
    /\ d # disabled
    /\ disabled' = d
    /\ lastEvent' = "other"
    /\ onChangeCalls' = <<>>
    /\ UNCHANGED <<value, allowedCountries, excludedCountries, preferredCountries,
                   pickerType, isOpen, internalNational, selectedCountry, searchQuery,
                   isInternalChange, timers, selections, mounted>>

(***************************************************************************)
(* The ref's isValid                                                       *)
(***************************************************************************)
\* The text isValid hands to parsePhoneNumber
FullNumber(selected, national) == <<"+">> \o selected.callingCode \o national

\* A verdict that takes any parsed number for a valid one
isValidVerdictParsed(selected, national) ==
    ParsePhoneNumber(FullNumber(selected, national), selected.iso2).ok

\* What isValid() returns: parsed.isValid() of the parsed number, false when
\* parsePhoneNumber yields none or throws.
isValidVerdict(selected, national) ==
    IsValid(ParsePhoneNumber(FullNumber(selected, national), selected.iso2))

\* A call of the ref's isValid(); lastEvent records what it returned.
isValid ==
    /\ mounted
    /\ lastEvent' = IF isValidVerdict(selectedCountry, internalNational)
                    THEN "valid" ELSE "invalid"
    /\ onChangeCalls' = <<>>
    /\ UNCHANGED <<value, props, isOpen, internalNational, selectedCountry, searchQuery,
                   isInternalChange, timers, selections, mounted>>

(***************************************************************************)
(* The picker                                                              *)
(***************************************************************************)
toggleDropdown ==
    /\ mounted
    /\ isOpen' = IF disabled THEN isOpen ELSE ~isOpen
    /\ lastEvent' = "other"
    /\ onChangeCalls' = <<>>
    /\ UNCHANGED <<value, props, internalNational, selectedCountry, searchQuery,
                   isInternalChange, timers, selections, mounted>>

\* The overlay's onPress and the modal's onRequestClose.
closeDropdown ==
    /\ mounted /\ isOpen
    /\ isOpen' = FALSE
    /\ lastEvent' = "other"
    /\ onChangeCalls' = <<>>
    /\ UNCHANGED <<value, props, internalNational, selectedCountry, searchQuery,
                   isInternalChange, timers, selections, mounted>>

\* The keyboard-hide listener, registered for the dropdown picker only.
keyboardHide ==
    /\ mounted /\ pickerType = "dropdown"
    /\ isOpen' = FALSE
    /\ lastEvent' = "other"
    /\ onChangeCalls' = <<>>
    /\ UNCHANGED <<value, props, internalNational, selectedCountry, searchQuery,
                   isInternalChange, timers, selections, mounted>>

\* The search field's onChangeText.
setSearchQuery(query) ==
    /\ mounted /\ isOpen
    /\ searchQuery' = query
    /\ lastEvent' = "other"
    /\ onChangeCalls' = <<>>
    /\ UNCHANGED <<value, props, isOpen, internalNational, selectedCountry,
                   isInternalChange, timers, selections, mounted>>

(***************************************************************************)
(* Specifications                                                          *)
(***************************************************************************)
\* Typing, host updates and validity queries: every keystroke text, no
\* country selection.
NextTyping ==
    \/ \E text \in KeyTexts : handleTextChange(text)
    \/ \E v \in TypingHostValues, throws \in BOOLEAN : HostSetValue(v, throws)
    \/ isValid

SpecTyping == Init /\ [][NextTyping]_vars

\* Keystrokes, country selections, deferred emissions and host updates.
SelectionKeyTexts == {TextEmpty, TextUS, TextTRNational, TextLetter}

Next ==
    \/ \E text \in SelectionKeyTexts : handleTextChange(text)
    \/ \E i \in 1..Len(countryList) : PressItem(countryList[i])
    \/ \E iso2 \in Iso2Codes : setCountry(iso2)
    \/ \E echo \in BOOLEAN, throws \in BOOLEAN : FireTimer(echo, throws)
    \/ \E v \in HostValues, throws \in BOOLEAN : HostSetValue(v, throws)
    \/ toggleDropdown

Spec == Init /\ [][Next]_vars

\* A timer callback runs: the oldest pending emission is made.
TimerRuns == timers # <<>> /\ timers' = Tail(timers) /\ lastEvent' = "timer"

\* setTimeout(callback, 0): a pending callback eventually runs.
SpecFair == Spec /\ WF_<<timers, lastEvent>>(TimerRuns)

\* The candidate list under every combination of the list props, shown and
\* searched in the picker.
NextLists ==
    \/ \E query \in ListSearchQueries : setSearchQuery(query)
    \/ toggleDropdown
    \/ closeDropdown

SpecLists == InitLists /\ [][NextLists]_vars

\* The picker: either picker type, searching, closing, selecting.
PickerKeyTexts == {TextUS, TextLetter}

NextPicker ==
    \/ \E text \in PickerKeyTexts : handleTextChange(text)
    \/ \E i \in 1..Len(countryList) : PressItem(countryList[i])
    \/ \E echo \in BOOLEAN, throws \in BOOLEAN : FireTimer(echo, throws)
    \/ \E query \in SearchQueries : setSearchQuery(query)
    \/ toggleDropdown
    \/ closeDropdown
    \/ keyboardHide

SpecPicker == InitPicker /\ [][NextPicker]_vars

\* The disabled prop changing under typing and the picker.
NextDisabled ==
    \/ \E text \in PickerKeyTexts : handleTextChange(text)
    \/ \E i \in 1..Len(countryList) : PressItem(countryList[i])
    \/ \E echo \in BOOLEAN, throws \in BOOLEAN : FireTimer(echo, throws)
    \/ \E d \in BOOLEAN : HostSetDisabled(d)
    \/ toggleDropdown
    \/ closeDropdown

SpecDisabled == InitPicker /\ [][NextDisabled]_vars

\* The list props changing under typing and host updates.
NextListChange ==
    \/ \E text \in PickerKeyTexts : handleTextChange(text)
    \/ \E v \in HostValues, throws \in BOOLEAN : HostSetValue(v, throws)
    \/ \E lp \in ChangedListProps, throws \in BOOLEAN : HostSetLists(lp, throws)
    \/ \E iso2 \in Iso2Codes : setCountry(iso2)
    \/ \E echo \in BOOLEAN, throws \in BOOLEAN : FireTimer(echo, throws)

SpecListChange == Init /\ [][NextListChange]_vars

\* The component's life: typing, selections, deferred emissions, unmount.
NextLifecycle ==
    \/ \E text \in PickerKeyTexts : handleTextChange(text)
    \/ \E i \in 1..Len(countryList) : PressItem(countryList[i])
    \/ \E iso2 \in Iso2Codes : setCountry(iso2)
    \/ \E echo \in BOOLEAN, throws \in BOOLEAN : FireTimer(echo, throws)
    \/ toggleDropdown
    \/ Unmount

SpecLifecycle == Init /\ [][NextLifecycle]_vars

(***************************************************************************)
(* Properties: keystrokes and emissions                                    *)
(***************************************************************************)
\* Whether a text has a character outside digits, space, hyphen and
\* parentheses.
OutsideFilter(text) ==
    \E i \in 1..Len(text) : text[i] \notin Digits \cup {" ", "-", "(", ")"}

\* C1: for every keystroke text that contains a character outside digits,
\* space, hyphen and parentheses, handleTextChange invokes onChange zero
\* times and leaves nationalText, selectedCountry and the reentrancy guard
\* exactly as they were.
C1_SyntacticRejection ==
    [][\A text \in KeyTexts :
          (OutsideFilter(text) /\ handleTextChange(text))
          => /\ onChangeCalls' = <<>>
             /\ UNCHANGED <<internalNational, selectedCountry, isInternalChange>>]_vars

\* The arguments the emission rule gives for a number and the digits it
\* was read from.
ExpectedEmission(number, digits, country) ==
    IF number.ok /\ IsValid(number)
    THEN <<FormatE164(number), country.iso2>>
    ELSE <<(<<"+">> \o country.callingCode) \o digits, country.iso2>>

\* The arguments of an onChange call
ArgsOf(call) == <<call.value, call.iso2>>

\* C2: every accepted keystroke text causes exactly one onChange
\* invocation; its arguments are (E.164 form, ISO2 of the selected country)
\* when the incremental formatter scoped to the selected country reports a
\* complete valid number for the text's digits, and otherwise ("+", the
\* selected country's calling code and the text's digits, ISO2 of the
\* selected country).
C2_KeystrokeEmission ==
    [][\A text \in KeyTexts :
          (StrictCharCheck(text) /\ handleTextChange(text))
          => /\ Len(onChangeCalls') = 1
             /\ ArgsOf(onChangeCalls'[1]) =
                    ExpectedEmission(
                        AsYouTypeGetNumber(selectedCountry.iso2, StripNonDigits(text)),
                        StripNonDigits(text), selectedCountry)]_vars

\* A Turkish number typed in national form has been emitted in E.164 form.
C2_Witness ==
    /\ lastEvent = "keystroke"
    /\ internalNational = TextTRNational
    /\ onChangeCalls = <<[value |-> ValueTR, iso2 |-> "TR", guard |-> TRUE]>>

\* C3: every onChange invocation, whether produced by a keystroke or by
\* the deferred emission of a country selection, happens with the
\* reentrancy guard already set.
C3_GuardSetAtEveryEmission ==
    \A i \in 1..Len(onChangeCalls) : onChangeCalls[i].guard

\* C4: after an accepted keystroke emits a value and the host passes
\* exactly that value back as the value prop, reconciliation is skipped:
\* nationalText and selectedCountry remain as the keystroke handler left
\* them, and the guard is clear afterwards.
C4_EchoSuppression ==
    [][\A text \in KeyTexts :
          (/\ StrictCharCheck(text)
           /\ handleTextChange(text)
           /\ Len(onChangeCalls') = 1
           /\ value' = onChangeCalls'[1].value)
          => /\ internalNational' = AsYouTypeInput(selectedCountry.iso2, text)
             /\ selectedCountry' = selectedCountry
             /\ ~isInternalChange']_vars

\* Host values no emission of this widget produces: the empty value, and a
\* number whose digits no modelled keystroke text holds.
NeverEmitted == {<<>>, ValueCA}

\* C5: an external value change that was not produced by this widget's own
\* emission is always reconciled, after any sequence of keystrokes,
\* country selections and host updates.
C5_ExternalChangeReconciled ==
    [][\A v \in NeverEmitted, throws \in BOOLEAN :
          HostSetValue(v, throws)
          => /\ internalNational' =
                    Reconcile(v, selectedCountry, internalNational,
                              finalCountryList, throws).internalNational
             /\ selectedCountry' =
                    Reconcile(v, selectedCountry, internalNational,
                              finalCountryList, throws).selectedCountry]_vars

(***************************************************************************)
(* Properties: reconciliation and country selection                        *)
(***************************************************************************)
\* The complete valid canonical values of countries of the list, with
\* their country and their national display.
CompleteValues == {ValueUS, ValueTR}

CountryOfValue(v) == IF v = ValueUS THEN "US" ELSE "TR"

DisplayOfValue(v) == IF v = ValueUS THEN TextUS ELSE TextTRNational

\* C6: reconciling +12025550123 with the guard clear selects US and sets
\* nationalText to (202) 555-0123, and feeding that text back through
\* keystroke handling emits (+12025550123, US); in general, for a complete
\* valid canonical value v of a country C of the list, reconciling v and
\* re-emitting from the resulting nationalText under C reproduces v.
C6_RoundTrip ==
    [][\A v \in CompleteValues :
          /\ \A throws \in BOOLEAN :
                (~isInternalChange /\ HostSetValue(v, throws))
                => /\ selectedCountry'.iso2 = CountryOfValue(v)
                   /\ internalNational' = DisplayOfValue(v)
          /\ (/\ value = v
              /\ selectedCountry.iso2 = CountryOfValue(v)
              /\ internalNational = DisplayOfValue(v)
              /\ handleTextChange(internalNational))
             => onChangeCalls' =
                    <<[value |-> v, iso2 |-> CountryOfValue(v), guard |-> TRUE]>>]_vars

\* The display of the reconciled +12025550123 has been typed back and has
\* emitted the value the host holds.
C6_Witness ==
    /\ lastEvent = "keystroke"
    /\ value = ValueUS
    /\ internalNational = TextUS
    /\ isInternalChange
    /\ onChangeCalls = <<[value |-> ValueUS, iso2 |-> "US", guard |-> TRUE]>>

\* A step that selects this country: a tap on its entry or setCountry with
\* its code.
Selects(country) ==
    \/ PressItem(country)
    \/ (setCountry(country.iso2) /\ lastEvent' = "select")

\* C7: after handleSelectCountry the digit sequence contained in
\* nationalText is the digit sequence nationalText held before the
\* selection, and the value emitted for that selection is built from
\* exactly those digits under the new country.
C7_SelectionPreservesDigits ==
    [][/\ \A i \in 1..Len(countryList) :
             Selects(countryList[i])
             => /\ StripNonDigits(internalNational') = StripNonDigits(internalNational)
                /\ timers'[Len(timers')] =
                       [country |-> countryList[i],
                        rawDigits |-> StripNonDigits(internalNational)]
       /\ \A echo \in BOOLEAN, throws \in BOOLEAN :
             FireTimer(echo, throws)
             => ArgsOf(onChangeCalls'[1]) =
                    ExpectedEmission(
                        AsYouTypeGetNumber(Head(timers).country.iso2,
                                           Head(timers).rawDigits),
                        Head(timers).rawDigits, Head(timers).country)]_vars

\* A number typed under US is shown as its bare digits under TR.
C7_Witness ==
    /\ lastEvent = "select"
    /\ selectedCountry = TR
    /\ internalNational = StripNonDigits(TextUS)

\* C8: tapping a country entry makes selectedCountry equal to the tapped
\* entry, closes the picker and sets the search query to empty, within the
\* selection handler, for any search query and either picker type.
C8_SelectionStateUpdate ==
    [][\A i \in 1..Len(countryList) :
          PressItem(countryList[i])
          => /\ selectedCountry' = countryList[i]
             /\ ~isOpen'
             /\ searchQuery' = <<>>]_vars

\* An entry of the modal picker has been tapped.
C8_Witness ==
    /\ lastEvent = "select"
    /\ pickerType = "modal"
    /\ selectedCountry = TR
    /\ ~isOpen
    /\ searchQuery = <<>>
    /\ Len(timers) = 1

\* C9: for each country selection, onChange is not invoked inside the
\* selection handler; it is invoked exactly once in a later scheduler
\* turn, after that selection's state updates, and it carries the ISO2 of
\* the chosen country.
C9_DeferredEmission ==
    /\ [][/\ \A i \in 1..Len(countryList) :
                Selects(countryList[i])
                => /\ onChangeCalls' = <<>>
                   /\ Len(timers') = Len(timers) + 1
                   /\ timers'[Len(timers')].country = countryList[i]
                   /\ selectedCountry' = countryList[i]
          /\ \A echo \in BOOLEAN, throws \in BOOLEAN :
                FireTimer(echo, throws)
                => /\ Len(onChangeCalls') = 1
                   /\ onChangeCalls'[1].iso2 = Head(timers).country.iso2
                   /\ timers' = Tail(timers)
          /\ (Len(timers') # Len(timers))
             => \/ lastEvent' = "select" /\ Len(timers') = Len(timers) + 1
                \/ lastEvent' = "timer" /\ Len(timers') = Len(timers) - 1]_vars
    /\ \A n \in 1..MaxSelections : (Len(timers) = n) ~> (Len(timers) < n)

\* The deferred emission of a selection of TR has been made.
C9_Witness ==
    /\ lastEvent = "timer"
    /\ selectedCountry = TR
    /\ timers = <<>>
    /\ Len(onChangeCalls) = 1
    /\ onChangeCalls[1].iso2 = "TR"

\* C10: when reconciliation runs with the guard clear and the value parses
\* to a country C different from selectedCountry, selectedCountry becomes
\* the directory entry of C if C is in the current list, and stays
\* unchanged, with no onChange call, if C is not in that list.
C10_CountrySwitch ==
    [][\A v \in HostValues \ {<<>>}, throws \in BOOLEAN :
          (/\ ~isInternalChange
           /\ HostSetValue(v, throws)
           /\ ParsePhoneNumber(v, "").country # selectedCountry.iso2)
          => /\ onChangeCalls' = <<>>
             /\ IF \E i \in 1..Len(finalCountryList) :
                       finalCountryList[i].iso2 = ParsePhoneNumber(v, "").country
                THEN /\ selectedCountry'.iso2 = ParsePhoneNumber(v, "").country
                     /\ Includes(finalCountryList, selectedCountry')
                ELSE selectedCountry' = selectedCountry]_vars

\* A Canadian value has been reconciled while CA is not in the list.
C10_Witness ==
    /\ lastEvent = "host"
    /\ ~isInternalChange
    /\ value = ValueCA
    /\ selectedCountry = US
    /\ ~Includes(finalCountryList, CA)
    /\ internalNational = <<"(", "2", "0", "4", ")", " ", "2", "3", "4", "-", "5", "6", "7", "8">>

\* Whether a parse failed: it threw, or yielded no number or no country.
ParseFailed(parsed) == ~parsed.ok \/ parsed.country = ""

\* C11: when both the country-scoped parse and the unscoped parse of a
\* non-empty external value fail, reconciliation leaves selectedCountry
\* unchanged, invokes no onChange, and sets nationalText to the raw value
\* verbatim.
C11_ParseFailureShowsRaw ==
    [][\A v \in TypingHostValues \ {<<>>}, throws \in BOOLEAN :
          (/\ ~isInternalChange
           /\ HostSetValue(v, throws)
           /\ ParseFailed(ParsePhoneNumber(v, selectedCountry.iso2))
           /\ ParseFailed(ParsePhoneNumber(v, "")))
          => /\ internalNational' = v
             /\ selectedCountry' = selectedCountry
             /\ onChangeCalls' = <<>>]_vars

\* A value that starts with no calling code has been reconciled.
C11_Witness ==
    /\ lastEvent = "host"
    /\ ~isInternalChange
    /\ value = ValueNoCallingCode
    /\ internalNational = ValueNoCallingCode

\* C12: when the value prop changes to the empty string and the guard is
\* clear, reconciliation sets nationalText to the empty string and changes
\* nothing else: selectedCountry and the picker state are unchanged and
\* there is no onChange call.
C12_EmptyValueClearsText ==
    [][\A throws \in BOOLEAN :
          (~isInternalChange /\ HostSetValue(<<>>, throws))
          => /\ internalNational' = <<>>
             /\ onChangeCalls' = <<>>
             /\ UNCHANGED <<selectedCountry, isOpen, searchQuery, isInternalChange,
                            timers>>]_vars

\* The value prop has become empty while the picker is open, and the field
\* is empty.
C12_Witness ==
    /\ lastEvent = "host"
    /\ ~isInternalChange
    /\ value = <<>>
    /\ internalNational = <<>>
    /\ selectedCountry = TR
    /\ isOpen

(***************************************************************************)
(* Properties: the candidate list and the picker                           *)
(***************************************************************************)
\* The codes of a list of codes, and those of a list of entries.
CodesIn(codes) == {codes[i] : i \in 1..Len(codes)}

Iso2In(list) == {list[i].iso2 : i \in 1..Len(list)}

\* The directory codes that allowedCountries and excludedCountries let
\* through.
SurvivingCodes ==
    {code \in Iso2Codes :
        /\ allowedCountries # <<>> => code \in CodesIn(allowedCountries)
        /\ code \notin CodesIn(excludedCountries)}

\* C13: whenever allowedCountries is set, the candidate list contains
\* exactly the directory entries whose ISO2 is in allowedCountries and not
\* in excludedCountries; with allowedCountries US, CA and no
\* preferredCountries the list is exactly US and CA in directory order.
C13_AllowedExcludedFiltering ==
    /\ allowedCountries # <<>>
       => /\ Iso2In(finalCountryList) =
                 CodesIn(allowedCountries) \ CodesIn(excludedCountries)
          /\ \A i \in 1..Len(finalCountryList) : Includes(countryList, finalCountryList[i])
    /\ (/\ allowedCountries = <<"US", "CA">>
        /\ excludedCountries = <<>>
        /\ preferredCountries = <<>>)
       => finalCountryList = <<CA, US>>

\* The open picker shows the list allowed down to the US and CA with CA
\* excluded.
C13_Witness ==
    /\ allowedCountries = <<"US", "CA">>
    /\ excludedCountries = <<"CA">>
    /\ isOpen
    /\ filteredCountries = <<US>>

\* The position of a code in the directory.
DirectoryPosition(code) == CHOOSE i \in 1..Len(countryList) : countryList[i].iso2 = code

IsPreferred(country) == country.iso2 \in CodesIn(preferredCountries)

\* C14: the candidate list holds exactly the countries that survive the
\* allowed and excluded filters; the preferred ones among them come first,
\* ordered by their position in preferredCountries, and the others follow in
\* directory order; preferredCountries DE, US alone gives Germany, United
\* States, then the rest of the directory in its order.
C14_PreferredOrdering ==
    /\ Iso2In(finalCountryList) = SurvivingCodes
    /\ \A i \in 1..Len(finalCountryList), j \in 1..Len(finalCountryList) :
          i < j =>
             /\ IsPreferred(finalCountryList[j]) => IsPreferred(finalCountryList[i])
             /\ (IsPreferred(finalCountryList[i]) /\ IsPreferred(finalCountryList[j]))
                => IndexOf(preferredCountries, finalCountryList[i].iso2)
                     < IndexOf(preferredCountries, finalCountryList[j].iso2)
             /\ (~IsPreferred(finalCountryList[i]) /\ ~IsPreferred(finalCountryList[j]))
                => DirectoryPosition(finalCountryList[i].iso2)
                     < DirectoryPosition(finalCountryList[j].iso2)
    /\ (/\ preferredCountries = <<"DE", "US">>
        /\ allowedCountries = <<>>
        /\ excludedCountries = <<>>)
       => finalCountryList = <<DE, US, CA, TR>>

\* The open picker shows the United States before Germany, against the
\* directory order, with the preferred but excluded Canada left out.
C14_Witness ==
    /\ preferredCountries = <<"US", "DE", "CA">>
    /\ allowedCountries = <<>>
    /\ excludedCountries = <<"CA">>
    /\ isOpen
    /\ filteredCountries = <<US, DE, TR>>

\* C15: under every combination of allowedCountries, excludedCountries and
\* preferredCountries, lists with repeated codes and lists that overlap
\* included, no ISO2 code occurs more than once in the candidate list.
C15_NoDuplicateCodes ==
    \A i \in 1..Len(finalCountryList), j \in 1..Len(finalCountryList) :
        finalCountryList[i].iso2 = finalCountryList[j].iso2 => i = j

\* A repeated allowed code and a repeated preferred code that is also
\* excluded: the open picker shows the United States once.
C15_Witness ==
    /\ allowedCountries = <<"US", "US">>
    /\ preferredCountries = <<"DE", "US", "DE">>
    /\ excludedCountries = <<"DE">>
    /\ isOpen
    /\ filteredCountries = <<US>>

(***************************************************************************)
(* Properties: the ref methods                                             *)
(***************************************************************************)
\* What a selection of this entry does to the state: the entry selected,
\* the picker closed, the query emptied, the digits reformatted, one
\* emission queued and none made.
SelectionEffect(country) ==
    /\ selectedCountry' = country
    /\ ~isOpen'
    /\ searchQuery' = <<>>
    /\ internalNational' = AsYouTypeInput(country.iso2, StripNonDigits(internalNational))
    /\ timers' = Append(timers, [country |-> country,
                                 rawDigits |-> StripNonDigits(internalNational)])
    /\ onChangeCalls' = <<>>
    /\ UNCHANGED <<value, props, isInternalChange, mounted>>

\* C16: setCountry(iso2) with a code absent from the candidate list changes
\* no state, calls onChange not at all and queues no emission; with a code
\* of the list it does what a tap on that entry does: the same state
\* updates and one queued emission.
C16_SetCountry ==
    [][/\ \A i \in 1..Len(countryList) :
             setCountry(countryList[i].iso2)
             => IF countryList[i].iso2 \in Iso2In(finalCountryList)
                THEN SelectionEffect(countryList[i])
                ELSE /\ onChangeCalls' = <<>>
                     /\ UNCHANGED <<value, props, isOpen, internalNational,
                                    selectedCountry, searchQuery, isInternalChange,
                                    timers, mounted>>
       /\ \A i \in 1..Len(countryList) :
             PressItem(countryList[i]) => SelectionEffect(countryList[i])]_vars

\* setCountry has been called with a code outside the list while a number
\* was on display.
C16_Witness ==
    /\ lastEvent = "ignored"
    /\ selectedCountry = US
    /\ internalNational = TextUS
    /\ timers = <<>>

\* The validity verdict of a parse result: false when there is no number.
VerdictOf(parsed) == IF ~parsed.ok THEN FALSE ELSE IsValid(parsed)

DigitsShort == <<"1", "2", "3">>
DigitsUS == <<"2", "0", "2", "5", "5", "5", "0", "1", "2", "3">>

\* C17: isValid() changes no state and returns, in every reachable state,
\* the validity verdict of the number parsed from "+", the selected
\* country's calling code and nationalText, false when that parse yields no
\* number; false for the digits 123 under US, true for 2025550123 under US.
C17_IsValid ==
    [][isValid
       => /\ UNCHANGED <<value, props, isOpen, internalNational, selectedCountry,
                         searchQuery, isInternalChange, timers, mounted>>
          /\ onChangeCalls' = <<>>
          /\ lastEvent' \in {"valid", "invalid"}
          /\ lastEvent' = "valid"
             <=> VerdictOf(ParsePhoneNumber(<<"+">> \o selectedCountry.callingCode
                                                \o internalNational,
                                            selectedCountry.iso2))
          /\ (selectedCountry = US /\ StripNonDigits(internalNational) = DigitsShort)
             => lastEvent' = "invalid"
          /\ (selectedCountry = US /\ StripNonDigits(internalNational) = DigitsUS)
             => lastEvent' = "valid"]_vars

\* isValid() has returned true for 2025550123 under US.
C17_Witness ==
    /\ lastEvent = "valid"
    /\ selectedCountry = US
    /\ StripNonDigits(internalNational) = DigitsUS

\* isValid() has returned false while the field showed an unparsed value.
C17_RawWitness ==
    /\ lastEvent = "invalid"
    /\ internalNational \in {ValueUnresolved, ValueNoCallingCode}

\* isValid() has returned false for 123 under US.
C17_ShortWitness ==
    /\ lastEvent = "invalid"
    /\ selectedCountry = US
    /\ StripNonDigits(internalNational) = DigitsShort

(***************************************************************************)
(* Properties: the emitted country                                         *)
(***************************************************************************)
\* C18: every onChange call of an accepted keystroke made while US is
\* selected carries the ISO2 "US", and the keystroke with the host's answer
\* to it leaves US selected, whatever country the typed digits belong to.
C18_KeystrokeCountry ==
    [][\A text \in KeyTexts :
          (/\ selectedCountry = US
           /\ StrictCharCheck(text)
           /\ handleTextChange(text))
          => /\ Len(onChangeCalls') = 1
             /\ \A i \in 1..Len(onChangeCalls') : onChangeCalls'[i].iso2 = "US"
             /\ selectedCountry' = US]_vars

\* A Canadian number typed under US has been emitted with the ISO2 "US" and
\* echoed by the host.
C18_Witness ==
    /\ lastEvent = "keystroke"
    /\ selectedCountry = US
    /\ value = ValueCA
    /\ onChangeCalls = <<[value |-> ValueCA, iso2 |-> "US", guard |-> TRUE]>>

(***************************************************************************)
(* Properties: the picker's search                                         *)
(***************************************************************************)
\* C19: whenever the picker is closed the search query is empty, that is,
\* every way of closing the picker (a selection, the overlay, the modal's
\* close request, the flag section, the keyboard hiding) empties the query.
C19_ClosedPickerHasEmptyQuery == ~isOpen => searchQuery = <<>>

\* Two characters that are equal or differ in case only.
SameLetter(a, b) ==
    \/ a = b
    \/ a \in DOMAIN LowerOf /\ LowerOf[a] = b
    \/ b \in DOMAIN LowerOf /\ LowerOf[b] = a

\* Whether the query occurs in a text, case disregarded.
OccursIn(query, text) ==
    \E i \in 0..(Len(text) - Len(query)) :
        \A k \in 1..Len(query) : SameLetter(text[i + k], query[k])

\* Whether an entry matches a query by name, calling code or ISO2 code.
Matches(country, query) ==
    \/ OccursIn(query, country.name)
    \/ OccursIn(query, country.callingCode)
    \/ OccursIn(query, Iso2Text(country.iso2))

\* C20: for every query the picker shows the entries of the candidate list
\* that match it, case disregarded, by a substring of the name, of the
\* calling code or of the ISO2 code, in the order of the candidate list; an
\* empty query shows the whole candidate list.
C20_SearchFiltering ==
    /\ filteredCountries =
           SelectSeq(finalCountryList, LAMBDA c : Matches(c, searchQuery))
    /\ searchQuery = <<>> => filteredCountries = finalCountryList

\* The query "An" shows Germany before Canada, the order of a candidate
\* list that prefers Germany.
C20_Witness ==
    /\ isOpen
    /\ searchQuery = <<"A", "n">>
    /\ preferredCountries = <<"DE">>
    /\ allowedCountries = <<>>
    /\ excludedCountries = <<>>
    /\ finalCountryList = <<DE, CA, TR, US>>
    /\ filteredCountries = <<DE, CA>>

(***************************************************************************)
(* Properties: the disabled prop                                           *)
(***************************************************************************)
\* A user interaction: a press on the flag section, a text typed in the
\* field, a tap on an entry of the open picker.
UserInteraction ==
    \/ toggleDropdown
    \/ \E text \in KeyTexts : handleTextChange(text)
    \/ \E i \in 1..Len(countryList) : PressItem(countryList[i])

\* C21: while the disabled prop is true, no press on the flag section, no
\* typed text and no tap on an entry of a picker that was open when
\* disabled became true changes selectedCountry or nationalText, opens the
\* picker, calls onChange or queues an emission.
C21_DisabledBlocksInteraction ==
    [][(disabled /\ UserInteraction)
       => /\ UNCHANGED <<selectedCountry, internalNational, timers>>
          /\ isOpen' => isOpen
          /\ onChangeCalls' = <<>>]_vars

(***************************************************************************)
(* Properties: the deferred emission and later events                      *)
(***************************************************************************)
\* The (value, iso2) an emission built from the text and the country that
\* follow the step would carry.
EmissionOfNextState ==
    ExpectedEmission(AsYouTypeGetNumber(selectedCountry'.iso2,
                                        StripNonDigits(internalNational')),
                     StripNonDigits(internalNational'), selectedCountry')

\* C22: when the last pending deferred emission has been made, the most
\* recent onChange call carries what an emission built from the current
\* nationalText digits and the current selectedCountry carries; a keystroke
\* accepted between a selection and its deferred emission is not
\* overwritten by an emission built from the digits before the keystroke.
C22_QuiescentConsistency ==
    [][\A echo \in BOOLEAN, throws \in BOOLEAN :
          (FireTimer(echo, throws) /\ timers' = <<>>)
          => ArgsOf(onChangeCalls'[1]) = EmissionOfNextState]_vars

(***************************************************************************)
(* Properties: the displayed text                                          *)
(***************************************************************************)
\* C23: after any sequence of external value updates and keystrokes,
\* nationalText contains only characters the keystroke filter accepts
\* (digits, whitespace, hyphen, parentheses), so that the displayed text
\* with one more digit is a text the filter accepts.
C23_TextAlwaysAccepted ==
    /\ StrictCharCheck(internalNational)
    /\ \A d \in Digits : StrictCharCheck(Append(internalNational, d))

(***************************************************************************)
(* Properties: the list props after mount                                  *)
(***************************************************************************)
\* C24: in every reachable state, after a change of allowedCountries,
\* excludedCountries or preferredCountries and with an empty candidate list
\* included, selectedCountry is an entry of the current candidate list.
C24_SelectedCountryInList == Includes(finalCountryList, selectedCountry)

\* C26: a change of allowedCountries, excludedCountries or
\* preferredCountries alone, the value prop unchanged, leaves nationalText
\* and the reentrancy guard as they were: reconciliation is not run again
\* on the unchanged value and the guard is kept for the next external value
\* update.
C26_ListChangeLeavesInput ==
    [][lastEvent' = "lists"
       => UNCHANGED <<value, internalNational, isInternalChange>>]_vars

(***************************************************************************)
(* Properties: no feedback loop                                            *)
(***************************************************************************)
\* C25: reconciliation of an external value calls onChange never and
\* queues nothing; an accepted keystroke calls onChange once and queues
\* nothing; a selection queues one emission and calls nothing; a deferred
\* emission calls onChange once, leaves the queue one shorter and, echoed
\* or not, queues nothing: with every emitted value passed back as the
\* value prop each user event makes one onChange call and nothing follows.
C25_NoFeedbackLoop ==
    [][/\ lastEvent' = "host"
          => onChangeCalls' = <<>> /\ timers' = timers
       /\ lastEvent' = "keystroke"
          => Len(onChangeCalls') = 1 /\ timers' = timers
       /\ \A i \in 1..Len(countryList) :
             Selects(countryList[i])
             => onChangeCalls' = <<>> /\ Len(timers') = Len(timers) + 1
       /\ \A echo \in BOOLEAN, throws \in BOOLEAN :
             FireTimer(echo, throws)
             => Len(onChangeCalls') = 1 /\ timers' = Tail(timers)]_vars

\* The deferred emission of a selection of Turkey has been made and echoed
\* by the host, and nothing is pending.
C25_Witness ==
    /\ lastEvent = "timer"
    /\ timers = <<>>
    /\ selectedCountry = TR
    /\ Len(onChangeCalls) = 1
    /\ onChangeCalls[1].value = value
    /\ onChangeCalls[1].iso2 = "TR"
    /\ internalNational # <<>>

(***************************************************************************)
(* Properties: unmount                                                     *)
(***************************************************************************)
\* C27: once the component is unmounted onChange is not called again, also
\* when the deferred emission of a selection was pending at unmount.
C27_NoEmissionAfterUnmount == ~mounted => onChangeCalls = <<>>

(***************************************************************************)
(* Properties: mount                                                       *)
(***************************************************************************)
\* The entry the claim names for a defaultCountry prop.
ExpectedInitialCountry(dc) ==
    IF dc \in Iso2In(finalCountryList)
    THEN CHOOSE c \in {countryList[i] : i \in 1..Len(countryList)} : c.iso2 = dc
    ELSE IF finalCountryList # <<>> THEN finalCountryList[1]
    ELSE countryList[1]

\* C28: at mount with an empty value, selectedCountry is the entry of
\* defaultCountry when that code is in the candidate list, otherwise the
\* first entry of the candidate list, and the first entry of the directory
\* only when the candidate list is empty.
C28_InitialSelection ==
    \A dc \in DefaultCountries :
        (lastEvent = MountEvent(dc) /\ value = <<>>)
        => /\ selectedCountry = ExpectedInitialCountry(dc)
           /\ internalNational = <<>>

\* Mounted with defaultCountry TR outside the list: the first entry of the
\* list, the preferred US, is selected, not the directory's first.
C28_Witness ==
    /\ lastEvent = "mount TR"
    /\ value = <<>>
    /\ allowedCountries = <<"US", "CA">>
    /\ excludedCountries = <<>>
    /\ preferredCountries = <<"US">>
    /\ selectedCountry = US

====
